---------------------------- MODULE Spec2Model ----------------------------
(***************************************************************************)
(* Model of the bid sorting engine (BidSorter), its benchmarking functions *)
(* and the menu loops of EnhancedVectorSorting.cpp and VectorSorting.cpp.  *)
(*                                                                         *)
(* Element indices are the code's 0-based size_t indices; a vector is a    *)
(* TLA+ sequence, element i of the code being bids[i+1].  size_t           *)
(* arithmetic wraps modulo SizeMod.  A title is modelled by its rank in    *)
(* the order of std::string's operator<, a strict total order, so titles   *)
(* are the numbers 1..MaxTitle compared with <.                            *)
(***************************************************************************)
EXTENDS Integers, Sequences, FiniteSets, TLC

\* Bounds of the model.
MaxLen == 4
MaxTitle == 3
IndexBits == 4
MaxElapsed == 1

\* size_t: unsigned, IndexBits wide.
SizeMod == 2 ^ IndexBits
SizeMax == SizeMod - 1
Wrap(x) == x % SizeMod
\* Conversion of a size_t value to int (two's complement), line 265.
ToInt(x) == IF x >= SizeMod \div 2 THEN x - SizeMod ELSE x

Titles == 1..MaxTitle
Funds == {"General"}
Amounts == {0}
\* struct Bid: bidId is a unique identifier within a dataset.
Bid == [bidId : 1..(MaxLen + 1), title : Titles, fund : Funds, amount : Amounts]

\* vector<Bid>::operator[] and size()
At(bids, i) == bids[i + 1]
InVec(bids, i) == i >= 0 /\ i < Len(bids)
\* std::swap(bids[i], bids[j])
Swap(bids, i, j) ==
    [bids EXCEPT ![i + 1] = bids[j + 1], ![j + 1] = bids[i + 1]]

(***************************************************************************)
(* The state of a running sort: the vector, the set of element indices     *)
(* read or written so far, and whether one of them was outside the vector  *)
(* (undefined behaviour: the run stops there and the caller chooses the    *)
(* outcome).                                                               *)
(***************************************************************************)
Run(bids) == [bids |-> bids, acc |-> {}, fault |-> FALSE]
Touch(st, idx) ==
    [st EXCEPT !.acc = @ \cup idx,
               !.fault = @ \/ (\E i \in idx : ~InVec(st.bids, i))]

----------------------------------------------------------------------------
\* BidSorter::partition, the scan of the low cursor (lines 83-85).
RECURSIVE lowScan(_, _, _, _)
lowScan(st, lowIndex, end, pivot) ==
    IF lowIndex <= end
    THEN LET s1 == Touch(st, {lowIndex})
         IN  IF s1.fault THEN [st |-> s1, lowIndex |-> lowIndex]
             ELSE IF At(st.bids, lowIndex).title < pivot
                  THEN lowScan(s1, Wrap(lowIndex + 1), end, pivot)
                  ELSE [st |-> s1, lowIndex |-> lowIndex]
    ELSE [st |-> st, lowIndex |-> lowIndex]

\* highScan with the comparison pivot <= title: the cursor also passes the
\* elements equal to the pivot.
RECURSIVE highScanNonStrict(_, _, _, _)
highScanNonStrict(st, highIndex, begin, pivot) ==
    IF highIndex >= begin
    THEN LET s1 == Touch(st, {highIndex})
         IN  IF s1.fault THEN [st |-> s1, highIndex |-> highIndex]
             ELSE IF pivot <= At(st.bids, highIndex).title
                  THEN highScanNonStrict(s1, Wrap(highIndex - 1), begin, pivot)
                  ELSE [st |-> s1, highIndex |-> highIndex]
    ELSE [st |-> st, highIndex |-> highIndex]

\* BidSorter::partition, the scan of the high cursor (lines 88-90).
RECURSIVE highScan(_, _, _, _)
highScan(st, highIndex, begin, pivot) ==
    IF highIndex >= begin
    THEN LET s1 == Touch(st, {highIndex})
         IN  IF s1.fault THEN [st |-> s1, highIndex |-> highIndex]
             ELSE IF pivot < At(st.bids, highIndex).title
                  THEN highScan(s1, Wrap(highIndex - 1), begin, pivot)
                  ELSE [st |-> s1, highIndex |-> highIndex]
    ELSE [st |-> st, highIndex |-> highIndex]

\* BidSorter::partition, the while (true) loop (lines 81-101).
RECURSIVE partitionLoop(_, _, _, _, _, _)
partitionLoop(st, lowIndex, highIndex, begin, end, pivot) ==
    LET lo == lowScan(st, lowIndex, end, pivot)
    IN  IF lo.st.fault THEN [st |-> lo.st, ret |-> highIndex]
        ELSE
        LET hi == highScan(lo.st, highIndex, begin, pivot)
        IN  IF hi.st.fault THEN [st |-> hi.st, ret |-> hi.highIndex]
            ELSE IF hi.highIndex <= lo.lowIndex
                 THEN [st |-> hi.st, ret |-> hi.highIndex]
                 ELSE LET s1 == Touch(hi.st, {lo.lowIndex, hi.highIndex})
                      IN  IF s1.fault THEN [st |-> s1, ret |-> hi.highIndex]
                          ELSE partitionLoop(
                                 [s1 EXCEPT !.bids =
                                     Swap(@, lo.lowIndex, hi.highIndex)],
                                 Wrap(lo.lowIndex + 1), Wrap(hi.highIndex - 1),
                                 begin, end, pivot)

\* partition with the pivot the title of the first element of the range.
partitionPivotFirst(st, begin, end) ==
    IF begin >= end THEN [st |-> st, ret |-> begin]
    ELSE LET s1 == Touch(st, {begin})
         IN  IF s1.fault THEN [st |-> s1, ret |-> begin]
             ELSE partitionLoop(s1, begin, end, begin, end,
                                At(st.bids, begin).title)

\* BidSorter::partition (lines 71-102).
partition(st, begin, end) ==
    IF begin >= end THEN [st |-> st, ret |-> begin]
    ELSE LET middlePoint == Wrap(begin + Wrap(end - begin) \div 2)
             s1 == Touch(st, {middlePoint})
         IN  IF s1.fault THEN [st |-> s1, ret |-> begin]
             ELSE partitionLoop(s1, begin, end, begin, end,
                                At(st.bids, middlePoint).title)

\* BidSorter::quickSort (lines 187-200).
RECURSIVE quickSort(_, _, _)
quickSort(st, begin, end) ==
    IF st.bids = << >> \/ end <= begin THEN st
    ELSE LET p == partition(st, begin, end)
             pivotIndex == p.ret
         IN  IF p.st.fault THEN p.st
             ELSE LET s1 == IF pivotIndex > begin
                            THEN quickSort(p.st, begin, pivotIndex)
                            ELSE p.st
                  IN  IF s1.fault THEN s1
                      ELSE IF pivotIndex < end
                           THEN quickSort(s1, Wrap(pivotIndex + 1), end)
                           ELSE s1

\* mergeLoop with the comparison left < right: a tie takes the element of
\* the right run.
RECURSIVE mergeLoopTiesRight(_, _, _, _, _, _)
mergeLoopTiesRight(st, leftArray, rightArray, i, j, k) ==
    IF i < Len(leftArray) /\ j < Len(rightArray)
    THEN LET s1 == Touch(st, {k})
         IN  IF s1.fault THEN s1
             ELSE IF At(leftArray, i).title < At(rightArray, j).title
                  THEN mergeLoopTiesRight(
                         [s1 EXCEPT !.bids[k + 1] = At(leftArray, i)],
                         leftArray, rightArray, i + 1, j, Wrap(k + 1))
                  ELSE mergeLoopTiesRight(
                         [s1 EXCEPT !.bids[k + 1] = At(rightArray, j)],
                         leftArray, rightArray, i, j + 1, Wrap(k + 1))
    ELSE IF i < Len(leftArray)
    THEN LET s1 == Touch(st, {k})
         IN  IF s1.fault THEN s1
             ELSE mergeLoopTiesRight(
                    [s1 EXCEPT !.bids[k + 1] = At(leftArray, i)],
                    leftArray, rightArray, i + 1, j, Wrap(k + 1))
    ELSE IF j < Len(rightArray)
    THEN LET s1 == Touch(st, {k})
         IN  IF s1.fault THEN s1
             ELSE mergeLoopTiesRight(
                    [s1 EXCEPT !.bids[k + 1] = At(rightArray, j)],
                    leftArray, rightArray, i, j + 1, Wrap(k + 1))
    ELSE st

\* BidSorter::merge, the three copy loops (lines 121-145); i and j index
\* leftArray and rightArray, k indexes bids.
RECURSIVE mergeLoop(_, _, _, _, _, _)
mergeLoop(st, leftArray, rightArray, i, j, k) ==
    IF i < Len(leftArray) /\ j < Len(rightArray)
    THEN LET s1 == Touch(st, {k})
         IN  IF s1.fault THEN s1
             ELSE IF At(leftArray, i).title <= At(rightArray, j).title
                  THEN mergeLoop([s1 EXCEPT !.bids[k + 1] = At(leftArray, i)],
                                 leftArray, rightArray, i + 1, j, Wrap(k + 1))
                  ELSE mergeLoop([s1 EXCEPT !.bids[k + 1] = At(rightArray, j)],
                                 leftArray, rightArray, i, j + 1, Wrap(k + 1))
    ELSE IF i < Len(leftArray)
    THEN LET s1 == Touch(st, {k})
         IN  IF s1.fault THEN s1
             ELSE mergeLoop([s1 EXCEPT !.bids[k + 1] = At(leftArray, i)],
                            leftArray, rightArray, i + 1, j, Wrap(k + 1))
    ELSE IF j < Len(rightArray)
    THEN LET s1 == Touch(st, {k})
         IN  IF s1.fault THEN s1
             ELSE mergeLoop([s1 EXCEPT !.bids[k + 1] = At(rightArray, j)],
                            leftArray, rightArray, i, j + 1, Wrap(k + 1))
    ELSE st

\* merge with the left run not copied out before the loops write: the
\* copy loop of the right run is all that runs.
mergeRightOnly(st, left, mid, right) ==
    LET s1 == Touch(st, left..right)
    IN  IF s1.fault THEN s1
        ELSE mergeLoop(s1, << >>, SubSeq(st.bids, mid + 2, right + 1),
                       0, 0, left)

\* merge with k starting at 0: the runs are written from the start of the
\* vector.
mergeFromStart(st, left, mid, right) ==
    LET s1 == Touch(st, left..right)
    IN  IF s1.fault THEN s1
        ELSE mergeLoop(s1, SubSeq(st.bids, left + 1, mid + 1),
                       SubSeq(st.bids, mid + 2, right + 1), 0, 0, 0)

\* BidSorter::merge (lines 113-146).
merge(st, left, mid, right) ==
    LET s1 == Touch(st, left..right)
    IN  IF s1.fault THEN s1
        ELSE mergeLoop(s1, SubSeq(st.bids, left + 1, mid + 1),
                       SubSeq(st.bids, mid + 2, right + 1), 0, 0, left)

\* BidSorter::mergeSort (lines 211-223).
RECURSIVE mergeSort(_, _, _)
mergeSort(st, left, right) ==
    IF st.bids = << >> \/ left >= right THEN st
    ELSE LET mid == Wrap(left + Wrap(right - left) \div 2)
             s1 == mergeSort(st, left, mid)
         IN  IF s1.fault THEN s1
             ELSE LET s2 == mergeSort(s1, Wrap(mid + 1), right)
                  IN  IF s2.fault THEN s2 ELSE merge(s2, left, mid, right)

\* selectionMin with the comparison <=: the last minimum, not the first.
RECURSIVE selectionMinLast(_, _, _, _)
selectionMinLast(st, size, j, minIndex) ==
    IF j < size
    THEN LET s1 == Touch(st, {j, minIndex})
         IN  IF s1.fault THEN [st |-> s1, minIndex |-> minIndex]
             ELSE selectionMinLast(s1, size, Wrap(j + 1),
                      IF At(st.bids, j).title <= At(st.bids, minIndex).title
                      THEN j ELSE minIndex)
    ELSE [st |-> st, minIndex |-> minIndex]

\* BidSorter::selectionSort, the inner loop (lines 165-169): the index of the
\* first minimum title of bids[j..size-1] and bids[minIndex].
RECURSIVE selectionMin(_, _, _, _)
selectionMin(st, size, j, minIndex) ==
    IF j < size
    THEN LET s1 == Touch(st, {j, minIndex})
         IN  IF s1.fault THEN [st |-> s1, minIndex |-> minIndex]
             ELSE selectionMin(s1, size, Wrap(j + 1),
                      IF At(st.bids, j).title < At(st.bids, minIndex).title
                      THEN j ELSE minIndex)
    ELSE [st |-> st, minIndex |-> minIndex]

\* BidSorter::selectionSort, the outer loop (lines 161-175).
RECURSIVE selectionLoop(_, _, _)
selectionLoop(st, size, i) ==
    IF i < Wrap(size - 1)
    THEN LET m == selectionMin(st, size, Wrap(i + 1), i)
         IN  IF m.st.fault THEN m.st
             ELSE IF m.minIndex # i
                  THEN LET s1 == Touch(m.st, {i, m.minIndex})
                       IN  IF s1.fault THEN s1
                           ELSE selectionLoop(
                                  [s1 EXCEPT !.bids = Swap(@, i, m.minIndex)],
                                  size, Wrap(i + 1))
                  ELSE selectionLoop(m.st, size, Wrap(i + 1))
    ELSE st

\* BidSorter::selectionSort (lines 156-176).
selectionSort(st) ==
    IF st.bids = << >> THEN st ELSE selectionLoop(st, Len(st.bids), 0)

\* BidSorter::heapSort, the heapify lambda (lines 236-260).
RECURSIVE heapify(_, _, _)
heapify(st, n, i) ==
    LET left == Wrap(2 * i + 1)
        right == Wrap(2 * i + 2)
        s1 == IF left < n THEN Touch(st, {left, i}) ELSE st
    IN  IF s1.fault THEN s1
        ELSE
        LET l1 == IF left < n /\ At(st.bids, left).title > At(st.bids, i).title
                  THEN left ELSE i
            s2 == IF right < n THEN Touch(s1, {right, l1}) ELSE s1
        IN  IF s2.fault THEN s2
            ELSE
            LET largest ==
                    IF right < n
                       /\ At(st.bids, right).title > At(st.bids, l1).title
                    THEN right ELSE l1
            IN  IF largest # i
                THEN heapify([s2 EXCEPT !.bids = Swap(@, i, largest)],
                             n, largest)
                ELSE s2

\* BidSorter::heapSort, the build loop (lines 265-267); i is an int.
RECURSIVE heapBuild(_, _, _)
heapBuild(st, n, i) ==
    IF i >= 0
    THEN LET s1 == heapify(st, n, Wrap(i))
         IN  IF s1.fault THEN s1 ELSE heapBuild(s1, n, i - 1)
    ELSE st

\* BidSorter::heapSort, the extraction loop (lines 270-276).
RECURSIVE heapExtract(_, _)
heapExtract(st, i) ==
    IF i > 0
    THEN LET s1 == Touch(st, {0, i})
         IN  IF s1.fault THEN s1
             ELSE LET s2 == heapify([s1 EXCEPT !.bids = Swap(@, 0, i)], i, 0)
                  IN  IF s2.fault THEN s2 ELSE heapExtract(s2, Wrap(i - 1))
    ELSE st

\* heapSort without the build loop.
heapSortNoBuild(st) ==
    IF st.bids = << >> THEN st
    ELSE heapExtract(st, Wrap(Len(st.bids) - 1))

\* heapSort without the check for an empty vector.
heapSortNoEmptyCheck(st) ==
    LET n == Len(st.bids)
        s1 == heapBuild(st, n, ToInt(Wrap(n \div 2 - 1)))
    IN  IF s1.fault THEN s1 ELSE heapExtract(s1, Wrap(n - 1))

\* BidSorter::heapSort (lines 232-277).
heapSort(st) ==
    IF st.bids = << >> THEN st
    ELSE LET n == Len(st.bids)
             s1 == heapBuild(st, n, ToInt(Wrap(n \div 2 - 1)))
         IN  IF s1.fault THEN s1 ELSE heapExtract(s1, Wrap(n - 1))

----------------------------------------------------------------------------
\* struct BenchmarkResult (lines 42-50).  executionTimeMs is
\* duration.count() / 1000.0 of a count of microseconds; it is held in
\* thousandths of a millisecond, so that it stays an integer.
BenchmarkResult(name, size, time) ==
    [algorithmName |-> name, dataSize |-> size, executionTimeMs |-> time]

SortFunctions == {"selectionSort", "quickSort", "mergeSort", "heapSort"}

\* benchmarkSort, the if constexpr dispatch on the function pointer
\* (lines 301-309).
Dispatch(sortFunction, st) ==
    CASE sortFunction = "quickSort" -> quickSort(st, 0, Wrap(Len(st.bids) - 1))
      [] sortFunction = "mergeSort" -> mergeSort(st, 0, Wrap(Len(st.bids) - 1))
      [] sortFunction = "selectionSort" -> selectionSort(st)
      [] sortFunction = "heapSort" -> heapSort(st)

\* benchmarkSort with the parameter bids a reference: the algorithm sorts
\* the caller's vector.
benchmarkSortByReference(sortFunction, callerBids, algorithmName) ==
    IF callerBids = << >>
    THEN {[result |-> BenchmarkResult(algorithmName, 0, 0),
           caller |-> callerBids, ranOn |-> << >>, st |-> Run(callerBids)]}
    ELSE {[result |-> BenchmarkResult(algorithmName, Len(st.bids), elapsed),
           caller |-> st.bids, ranOn |-> <<callerBids>>, st |-> st]
           : st \in {Dispatch(sortFunction, Run(callerBids))},
             elapsed \in 0..MaxElapsed}

\* benchmarkSort without the return for an empty vector.
benchmarkSortNoEmptyCheck(sortFunction, callerBids, algorithmName) ==
    {[result |-> BenchmarkResult(algorithmName, Len(st.bids), elapsed),
      caller |-> callerBids, ranOn |-> <<callerBids>>, st |-> st]
      : st \in {Dispatch(sortFunction, Run(callerBids))},
        elapsed \in 0..MaxElapsed}

(***************************************************************************)
(* benchmarkSort (lines 292-315): the returns the call can make, one for   *)
(* each count of microseconds the clock can measure.  The parameter bids   *)
(* is passed by value: local is the function's copy, caller the argument's *)
(* vector when the call returns.  ranOn records the vector the algorithm   *)
(* was given and st the run of the algorithm on the copy.                  *)
(***************************************************************************)
benchmarkSort(sortFunction, callerBids, algorithmName) ==
    UNION {
        IF local = << >>
        THEN {[result |-> BenchmarkResult(algorithmName, 0, 0),
               caller |-> callerBids, ranOn |-> << >>, st |-> Run(local)]}
        ELSE {[result |-> BenchmarkResult(algorithmName, Len(st.bids),
                                          elapsed),
               caller |-> callerBids, ranOn |-> <<local>>, st |-> st]
               : st \in {Dispatch(sortFunction, Run(local))},
                 elapsed \in 0..MaxElapsed}
        : local \in {callerBids} }

(***************************************************************************)
(* runBenchmarkComparison (lines 482-504): the four benchmarkSort calls in *)
(* program order, each given the caller's vector as the call before left   *)
(* it; shown is whether displayBenchmarks was called with the results.     *)
(***************************************************************************)
runBenchmarkComparison(callerBids) ==
    IF callerBids = << >>
    THEN {[results |-> << >>, shown |-> FALSE, caller |-> callerBids,
           ranOn |-> << >>, st |-> Run(callerBids)]}
    ELSE UNION { UNION { UNION {
           {[results |-> <<r1.result, r2.result, r3.result, r4.result>>,
             shown |-> TRUE,
             caller |-> r4.caller,
             ranOn |-> r1.ranOn \o r2.ranOn \o r3.ranOn \o r4.ranOn,
             st |-> [bids |-> r4.caller,
                     acc |-> r1.st.acc \cup r2.st.acc \cup r3.st.acc
                             \cup r4.st.acc,
                     fault |-> r1.st.fault \/ r2.st.fault \/ r3.st.fault
                               \/ r4.st.fault]]
             : r4 \in benchmarkSort("heapSort", r3.caller, "Heap Sort")}
           : r3 \in benchmarkSort("mergeSort", r2.caller, "Merge Sort")}
           : r2 \in benchmarkSort("quickSort", r1.caller, "Quick Sort")}
           : r1 \in benchmarkSort("selectionSort", callerBids,
                                  "Selection Sort")}

----------------------------------------------------------------------------
\* VectorSorting.cpp, partition: the scan of the low cursor (lines 133-135).
RECURSIVE lowScanOriginal(_, _, _)
lowScanOriginal(st, lowIndex, pivot) ==
    LET s1 == Touch(st, {lowIndex})
    IN  IF s1.fault THEN [st |-> s1, lowIndex |-> lowIndex]
        ELSE IF At(st.bids, lowIndex).title < pivot
             THEN lowScanOriginal(s1, Wrap(lowIndex + 1), pivot)
             ELSE [st |-> s1, lowIndex |-> lowIndex]

\* VectorSorting.cpp, partition: the scan of the high cursor (lines 138-140).
RECURSIVE highScanOriginal(_, _, _)
highScanOriginal(st, highIndex, pivot) ==
    LET s1 == Touch(st, {highIndex})
    IN  IF s1.fault THEN [st |-> s1, highIndex |-> highIndex]
        ELSE IF pivot < At(st.bids, highIndex).title
             THEN highScanOriginal(s1, Wrap(highIndex - 1), pivot)
             ELSE [st |-> s1, highIndex |-> highIndex]

\* VectorSorting.cpp, partition: the while (true) loop (lines 131-153).
RECURSIVE partitionLoopOriginal(_, _, _, _)
partitionLoopOriginal(st, lowIndex, highIndex, pivot) ==
    LET lo == lowScanOriginal(st, lowIndex, pivot)
    IN  IF lo.st.fault THEN [st |-> lo.st, ret |-> highIndex]
        ELSE
        LET hi == highScanOriginal(lo.st, highIndex, pivot)
        IN  IF hi.st.fault THEN [st |-> hi.st, ret |-> hi.highIndex]
            ELSE IF hi.highIndex <= lo.lowIndex
                 THEN [st |-> hi.st, ret |-> hi.highIndex]
                 ELSE LET s1 == Touch(hi.st, {lo.lowIndex, hi.highIndex})
                      IN  IF s1.fault THEN [st |-> s1, ret |-> hi.highIndex]
                          ELSE partitionLoopOriginal(
                                 [s1 EXCEPT !.bids =
                                     Swap(@, lo.lowIndex, hi.highIndex)],
                                 Wrap(lo.lowIndex + 1), Wrap(hi.highIndex - 1),
                                 pivot)

\* VectorSorting.cpp, partition (lines 121-156).
partitionOriginal(st, begin, end) ==
    LET middlePoint == Wrap(begin + Wrap(end - begin) \div 2)
        s1 == Touch(st, {middlePoint})
    IN  IF s1.fault THEN [st |-> s1, ret |-> end]
        ELSE partitionLoopOriginal(s1, begin, end,
                                   At(st.bids, middlePoint).title)

\* VectorSorting.cpp, quickSort (lines 167-182).
RECURSIVE quickSortOriginal(_, _, _)
quickSortOriginal(st, begin, end) ==
    IF end <= begin THEN st
    ELSE LET p == partitionOriginal(st, begin, end)
             mid == p.ret
         IN  IF p.st.fault THEN p.st
             ELSE LET s1 == quickSortOriginal(p.st, begin, mid)
                  IN  IF s1.fault THEN s1
                      ELSE quickSortOriginal(s1, Wrap(mid + 1), end)

\* VectorSorting.cpp, selectionSort: the inner loop (lines 200-204).
RECURSIVE selectionMinOriginal(_, _, _, _)
selectionMinOriginal(st, size, j, min) ==
    IF j < size
    THEN LET s1 == Touch(st, {j, min})
         IN  IF s1.fault THEN [st |-> s1, min |-> min]
             ELSE selectionMinOriginal(s1, size, Wrap(j + 1),
                      IF At(st.bids, j).title < At(st.bids, min).title
                      THEN j ELSE min)
    ELSE [st |-> st, min |-> min]

\* VectorSorting.cpp, selectionSort: the outer loop (lines 196-208).
RECURSIVE selectionLoopOriginal(_, _, _)
selectionLoopOriginal(st, size, pos) ==
    IF pos < Wrap(size - 1)
    THEN LET m == selectionMinOriginal(st, size, Wrap(pos + 1), pos)
         IN  IF m.st.fault THEN m.st
             ELSE LET s1 == Touch(m.st, {pos, m.min})
                  IN  IF s1.fault THEN s1
                      ELSE selectionLoopOriginal(
                             [s1 EXCEPT !.bids = Swap(@, pos, m.min)],
                             size, Wrap(pos + 1))
    ELSE st

\* VectorSorting.cpp, selectionSort (lines 192-209).
selectionSortOriginal(st) == selectionLoopOriginal(st, Len(st.bids), 0)

\* VectorSorting.cpp, loadBids (lines 83-112): as loadBids of the enhanced
\* engine.
loadBidsOriginal(file) ==
    [i \in 1..Len(file) |->
        [bidId |-> file[i][2], title |-> file[i][1], fund |-> file[i][4],
         amount |-> file[i][3]]]

----------------------------------------------------------------------------
\* loadBids (lines 445-475): one Bid for each row of the file, in the file's
\* order; a file that cannot be read has no rows.  A row is the tuple of
\* the columns 0 (title), 1 (identifier), 4 (amount) and 8 (fund).
loadBids(file) ==
    [i \in 1..Len(file) |->
        [bidId |-> file[i][2], title |-> file[i][1], fund |-> file[i][4],
         amount |-> file[i][3]]]

----------------------------------------------------------------------------
(***************************************************************************)
(* State.  bids is the vector the operations act on (in the menu loop, the *)
(* live dataset of main) and orig the vector a client of the functions     *)
(* built before its first call.  The other variables record the last       *)
(* operation: call names it and its arguments, pre is bids as it was       *)
(* before it, acc the element indices it read or wrote, fault whether one  *)
(* of them was outside the vector, ret the value partition returned,       *)
(* results the BenchmarkResults it produced and ranOn the vector each      *)
(* benchmarked algorithm was given.  calls counts the calls a client of    *)
(* the sort functions has made, and csvFile is the rows of the CSV file    *)
(* the menu loop loads.  stack is the call stack of a sort that is         *)
(* followed step by step, the frame of the running function last.          *)
(***************************************************************************)
VARIABLES bids, orig, pre, call, acc, fault, ret, results, ranOn, calls,
          csvFile, stack

vars ==
    <<bids, orig, pre, call, acc, fault, ret, results, ranOn, calls, csvFile,
      stack>>

\* Bounds of the clients: the calls a client of the sort functions makes,
\* the length of a benchmarked dataset, the rows of the CSV file and the
\* length of the live dataset of the menu loop.
MaxCalls == 2
MaxBenchLen == 2
MaxCsvRows == 2
MaxBids == 3

\* A dataset: row i carries the identifier i and any title.
MakeBids(titles) ==
    [i \in 1..Len(titles) |->
        [bidId |-> i, title |-> titles[i], fund |-> "General", amount |-> 0]]
Datasets(maxLen) ==
    {MakeBids(t) : t \in UNION {[1..n -> Titles] : n \in 0..maxLen}}

Call(fn, algo, begin, end) ==
    [fn |-> fn, algo |-> algo, begin |-> begin, end |-> end]
NoCall == Call("none", "none", 0, 0)

\* The outcomes of a run: its vector, or anything once it has accessed an
\* element outside the vector.
Outcomes(st) == IF st.fault THEN Datasets(MaxLen) ELSE {st.bids}

\* The index arguments a client passes: in range, or size() - 1 of an
\* empty vector.
IndexArgs == (0..(MaxLen - 1)) \cup {SizeMax}

\* A client may call again what it has just called.
MayCall(c) == calls < MaxCalls /\ (calls = 0 \/ call = c)

\* The return of call c, which leaves the run st and the caller's vector b.
Return(c, b, st, r, res, ran) ==
    /\ pre' = bids
    /\ call' = c
    /\ bids' = b
    /\ acc' = st.acc
    /\ fault' = st.fault
    /\ ret' = r
    /\ results' = res
    /\ ranOn' = ran
    /\ UNCHANGED <<orig, csvFile, stack>>

(***************************************************************************)
(* Spec: a client of the sort functions builds a vector, calls one of them *)
(* and may call it again.                                                  *)
(***************************************************************************)
Init ==
    /\ bids \in Datasets(MaxLen)
    /\ orig = bids
    /\ pre = bids
    /\ call = NoCall
    /\ acc = {}
    /\ fault = FALSE
    /\ ret = 0
    /\ results = << >>
    /\ ranOn = << >>
    /\ calls = 0
    /\ csvFile = << >>
    /\ stack = << >>

CallSelectionSort ==
    /\ MayCall(Call("selectionSort", "none", 0, 0))
    /\ calls' = calls + 1
    /\ \E st \in {selectionSort(Run(bids))} :
         \E b \in Outcomes(st) :
           Return(Call("selectionSort", "none", 0, 0), b, st, 0, << >>, << >>)

CallHeapSort ==
    /\ MayCall(Call("heapSort", "none", 0, 0))
    /\ calls' = calls + 1
    /\ \E st \in {heapSort(Run(bids))} :
         \E b \in Outcomes(st) :
           Return(Call("heapSort", "none", 0, 0), b, st, 0, << >>, << >>)

\* quickSort(bids, begin, end): the range is inside the vector, or there
\* is nothing to sort.
CallQuickSort ==
    \E begin \in IndexArgs, end \in IndexArgs :
        /\ bids = << >> \/ begin >= end \/ end < Len(bids)
        /\ MayCall(Call("quickSort", "none", begin, end))
        /\ calls' = calls + 1
        /\ \E st \in {quickSort(Run(bids), begin, end)} :
             \E b \in Outcomes(st) :
               Return(Call("quickSort", "none", begin, end), b, st, 0,
                      << >>, << >>)

CallMergeSort ==
    \E left \in IndexArgs, right \in IndexArgs :
        /\ bids = << >> \/ left >= right \/ right < Len(bids)
        /\ MayCall(Call("mergeSort", "none", left, right))
        /\ calls' = calls + 1
        /\ \E st \in {mergeSort(Run(bids), left, right)} :
             \E b \in Outcomes(st) :
               Return(Call("mergeSort", "none", left, right), b, st, 0,
                      << >>, << >>)

CallPartition ==
    \E begin \in 0..(MaxLen - 1), end \in 0..(MaxLen - 1) :
        /\ begin < end /\ end < Len(bids)
        /\ MayCall(Call("partition", "none", begin, end))
        /\ calls' = calls + 1
        /\ \E p \in {partition(Run(bids), begin, end)} :
             \E b \in Outcomes(p.st) :
               Return(Call("partition", "none", begin, end), b, p.st, p.ret,
                      << >>, << >>)

CallPartitionOriginal ==
    \E begin \in 0..(MaxLen - 1), end \in 0..(MaxLen - 1) :
        /\ begin < end /\ end < Len(bids)
        /\ MayCall(Call("partitionOriginal", "none", begin, end))
        /\ calls' = calls + 1
        /\ \E p \in {partitionOriginal(Run(bids), begin, end)} :
             \E b \in Outcomes(p.st) :
               Return(Call("partitionOriginal", "none", begin, end), b, p.st,
                      p.ret, << >>, << >>)

Next ==
    \/ CallSelectionSort
    \/ CallHeapSort
    \/ CallQuickSort
    \/ CallMergeSort
    \/ CallPartition
    \/ CallPartitionOriginal

Spec == Init /\ [][Next]_vars

(***************************************************************************)
(* BenchSpec: a client of the benchmark functions builds a dataset and     *)
(* calls benchmarkSort and runBenchmarkComparison on it, any number of     *)
(* times in any order.                                                     *)
(***************************************************************************)
BenchInit ==
    /\ bids \in Datasets(MaxBenchLen)
    /\ orig = bids
    /\ pre = bids
    /\ call = NoCall
    /\ acc = {}
    /\ fault = FALSE
    /\ ret = 0
    /\ results = << >>
    /\ ranOn = << >>
    /\ calls = 0
    /\ csvFile = << >>
    /\ stack = << >>

\* The name each caller passes with the function pointer (lines 492-501,
\* 582, 594, 607, 620).
AlgorithmName(sortFunction) ==
    CASE sortFunction = "selectionSort" -> "Selection Sort"
      [] sortFunction = "quickSort" -> "Quick Sort"
      [] sortFunction = "mergeSort" -> "Merge Sort"
      [] sortFunction = "heapSort" -> "Heap Sort"

\* The calls made so far, counted up to MaxCalls.
Counted(n) == IF n < MaxCalls THEN n + 1 ELSE n

CallBenchmarkSort ==
    \E sortFunction \in SortFunctions :
        \E r \in benchmarkSort(sortFunction, bids,
                               AlgorithmName(sortFunction)) :
            /\ Return(Call("benchmarkSort", sortFunction, 0, 0), r.caller,
                      r.st, 0, <<r.result>>, r.ranOn)
            /\ calls' = Counted(calls)

CallRunBenchmarkComparison ==
    \E r \in runBenchmarkComparison(bids) :
        /\ Return(Call("runBenchmarkComparison", "none", 0, 0), r.caller,
                  r.st, 0, r.results, r.ranOn)
        /\ calls' = Counted(calls)

BenchNext == CallBenchmarkSort \/ CallRunBenchmarkComparison

BenchSpec == BenchInit /\ [][BenchNext]_vars

(***************************************************************************)
(* MainSpec: the menu loop of main in EnhancedVectorSorting.cpp (lines     *)
(* 533-648), one action for each case of the switch.  The file at csvPath  *)
(* holds csvFile throughout; a manual entry carries a new identifier.      *)
(***************************************************************************)
CsvFiles ==
    {[i \in 1..Len(d) |-> <<d[i].title, d[i].bidId, d[i].amount, d[i].fund>>]
        : d \in Datasets(MaxCsvRows)}

MainInit ==
    /\ bids = << >>
    /\ orig = << >>
    /\ pre = << >>
    /\ call = NoCall
    /\ acc = {}
    /\ fault = FALSE
    /\ ret = 0
    /\ results = << >>
    /\ ranOn = << >>
    /\ calls = 0
    /\ csvFile \in CsvFiles
    /\ stack = << >>

\* The loop runs until choice is 10 (line 543).
Running == call.fn # "case10"

\* The end of the case c, which leaves the live dataset b.
Break(c, b, st, res, ran) ==
    /\ Return(Call(c, "none", 0, 0), b, st, 0, res, ran)
    /\ UNCHANGED calls

\* The two runs of a sort command, on the copy and on the live dataset.
Both(r, st) ==
    [bids |-> st.bids, acc |-> r.st.acc \cup st.acc,
     fault |-> r.st.fault \/ st.fault]

\* case 1 (lines 548-555)
Case1 ==
    /\ Running
    /\ Break("case1", loadBids(csvFile), Run(bids), << >>, << >>)

\* case 2 (lines 557-568)
Case2 ==
    /\ Running
    /\ Break("case2", bids, Run(bids), << >>, << >>)

\* case 3 (lines 570-575)
Case3 ==
    /\ Running
    /\ Len(bids) < MaxBids
    /\ \E title \in Titles :
         LET newBid == [bidId |-> Len(bids) + 1, title |-> title,
                        fund |-> "General", amount |-> 0]
         IN  Break("case3", Append(bids, newBid), Run(bids), << >>, << >>)

\* case 4 (lines 577-587)
Case4 ==
    /\ Running
    /\ IF bids = << >>
       THEN Break("case4", bids, Run(bids), << >>, << >>)
       ELSE \E r \in benchmarkSort("selectionSort", bids, "Selection Sort") :
              \E st \in {selectionSort(Run(loadBids(csvFile)))} :
                \E b \in Outcomes(Both(r, st)) :
                  Break("case4", b, Both(r, st), <<r.result>>, r.ranOn)

\* case 5 (lines 589-600)
Case5 ==
    /\ Running
    /\ IF bids = << >>
       THEN Break("case5", bids, Run(bids), << >>, << >>)
       ELSE \E r \in benchmarkSort("quickSort", bids, "Quick Sort") :
              \E st \in {IF Len(r.caller) > 0
                         THEN quickSort(Run(r.caller), 0,
                                        Wrap(Len(r.caller) - 1))
                         ELSE Run(r.caller)} :
                \E b \in Outcomes(Both(r, st)) :
                  Break("case5", b, Both(r, st), <<r.result>>, r.ranOn)

\* case 6 (lines 602-613)
Case6 ==
    /\ Running
    /\ IF bids = << >>
       THEN Break("case6", bids, Run(bids), << >>, << >>)
       ELSE \E r \in benchmarkSort("mergeSort", bids, "Merge Sort") :
              \E st \in {IF Len(r.caller) > 0
                         THEN mergeSort(Run(r.caller), 0,
                                        Wrap(Len(r.caller) - 1))
                         ELSE Run(r.caller)} :
                \E b \in Outcomes(Both(r, st)) :
                  Break("case6", b, Both(r, st), <<r.result>>, r.ranOn)

\* case 7 (lines 615-624)
Case7 ==
    /\ Running
    /\ IF bids = << >>
       THEN Break("case7", bids, Run(bids), << >>, << >>)
       ELSE \E r \in benchmarkSort("heapSort", bids, "Heap Sort") :
              \E st \in {heapSort(Run(r.caller))} :
                \E b \in Outcomes(Both(r, st)) :
                  Break("case7", b, Both(r, st), <<r.result>>, r.ranOn)

\* case 8 (lines 626-628)
Case8 ==
    /\ Running
    /\ \E r \in runBenchmarkComparison(bids) :
         Break("case8", r.caller, r.st, r.results, r.ranOn)

\* case 9 (lines 630-633)
Case9 ==
    /\ Running
    /\ Break("case9", << >>, Run(bids), << >>, << >>)

\* case 10 (lines 635-637)
Case10 ==
    /\ Running
    /\ Break("case10", bids, Run(bids), << >>, << >>)

MainNext ==
    \/ Case1
    \/ Case2
    \/ Case3
    \/ Case4
    \/ Case5
    \/ Case6
    \/ Case7
    \/ Case8
    \/ Case9
    \/ Case10

MainSpec == MainInit /\ [][MainNext]_vars

(***************************************************************************)
(* RunSpec: one call of a sort of BidSorter followed step by step.  A step *)
(* is one evaluation of a loop condition with the iteration it lets in, a  *)
(* call or a return.  A frame holds the function, the place (pc) in it and *)
(* its parameters and locals; a local holds 0 until it is assigned.        *)
(***************************************************************************)
Top == stack[Len(stack)]
\* The stack when the running function returns.
Below == SubSeq(stack, 1, Len(stack) - 1)
\* The stack when the running function goes on as f.
Goto(f) == Append(Below, f)
\* The stack when the running function, going on as f, calls g.
CallFrom(f, g) == Append(Append(Below, f), g)
\* The effect of a step: the stack and the vector it leaves, and the
\* element indices idx it reads or writes.
Effect(stk, b, idx) == [stack |-> stk, bids |-> b, idx |-> idx]

\* bids[i].title, bids[k] = bid and swap(bids[i], bids[j]); outside the
\* vector the step is a fault and its effect is not used.
TitleAt(i) == IF InVec(bids, i) THEN At(bids, i).title ELSE 0
Assigned(k, bid) == IF InVec(bids, k) THEN [bids EXCEPT ![k + 1] = bid] ELSE bids
Swapped(i, j) ==
    IF InVec(bids, i) /\ InVec(bids, j) THEN Swap(bids, i, j) ELSE bids
\* vector<Bid>(bids.begin() + from, bids.begin() + to)
Copied(from, to) ==
    IF from <= to /\ to <= Len(bids) THEN SubSeq(bids, from + 1, to) ELSE << >>

\* MidPoint rounded up: the midpoint of a range of two is its end.
MidPointUpper(low, high) == Wrap(low + Wrap(high - low + 1) \div 2)

\* lowIndex + (highIndex - lowIndex) / 2 (line 78) and
\* left + (right - left) / 2 (line 215).
MidPoint(low, high) == Wrap(low + Wrap(high - low) \div 2)

QuickSortFrame(begin, end) ==
    [fn |-> "quickSort", pc |-> "entry", begin |-> begin, end |-> end,
     pivotIndex |-> 0]
PartitionFrame(begin, end) ==
    [fn |-> "partition", pc |-> "entry", begin |-> begin, end |-> end,
     lowIndex |-> 0, highIndex |-> 0, pivot |-> 0]
MergeSortFrame(left, right) ==
    [fn |-> "mergeSort", pc |-> "entry", left |-> left, right |-> right,
     mid |-> 0]
MergeFrame(left, mid, right) ==
    [fn |-> "merge", pc |-> "entry", left |-> left, mid |-> mid,
     right |-> right, leftArray |-> << >>, rightArray |-> << >>,
     i |-> 0, j |-> 0, k |-> 0]
SelectionSortFrame ==
    [fn |-> "selectionSort", pc |-> "entry", size |-> 0, i |-> 0, j |-> 0,
     minIndex |-> 0]
HeapSortFrame == [fn |-> "heapSort", pc |-> "entry", n |-> 0, i |-> 0]
HeapifyFrame(n, i) == [fn |-> "heapify", pc |-> "entry", n |-> n, i |-> i]

\* The stack when partition returns r to quickSort (line 191).
ReturnPivot(r) ==
    Append(SubSeq(stack, 1, Len(stack) - 2),
           [stack[Len(stack) - 1] EXCEPT !.pivotIndex = r, !.pc = "left"])

\* BidSorter::partition (lines 71-102).
PartitionStep(f) ==
    CASE f.pc = "entry" ->
           IF f.begin >= f.end
           THEN Effect(ReturnPivot(f.begin), bids, {})
           ELSE Effect(Goto([f EXCEPT !.pc = "low", !.lowIndex = f.begin,
                                      !.highIndex = f.end,
                                      !.pivot = TitleAt(MidPoint(f.begin, f.end))]),
                       bids, {MidPoint(f.begin, f.end)})
      [] f.pc = "low" ->
           IF f.lowIndex <= f.end
           THEN Effect(Goto(IF TitleAt(f.lowIndex) < f.pivot
                            THEN [f EXCEPT !.lowIndex = Wrap(@ + 1)]
                            ELSE [f EXCEPT !.pc = "high"]),
                       bids, {f.lowIndex})
           ELSE Effect(Goto([f EXCEPT !.pc = "high"]), bids, {})
      [] f.pc = "high" ->
           IF f.highIndex >= f.begin
           THEN Effect(Goto(IF f.pivot < TitleAt(f.highIndex)
                            THEN [f EXCEPT !.highIndex = Wrap(@ - 1)]
                            ELSE [f EXCEPT !.pc = "crossed"]),
                       bids, {f.highIndex})
           ELSE Effect(Goto([f EXCEPT !.pc = "crossed"]), bids, {})
      [] f.pc = "crossed" ->
           IF f.highIndex <= f.lowIndex
           THEN Effect(ReturnPivot(f.highIndex), bids, {})
           ELSE Effect(Goto([f EXCEPT !.pc = "low",
                                      !.lowIndex = Wrap(@ + 1),
                                      !.highIndex = Wrap(@ - 1)]),
                       Swapped(f.lowIndex, f.highIndex),
                       {f.lowIndex, f.highIndex})

\* BidSorter::quickSort (lines 187-200).
QuickSortStep(f) ==
    CASE f.pc = "entry" ->
           IF bids = << >> \/ f.end <= f.begin
           THEN Effect(Below, bids, {})
           ELSE Effect(CallFrom([f EXCEPT !.pc = "partition"],
                                PartitionFrame(f.begin, f.end)), bids, {})
      [] f.pc = "left" ->
           IF f.pivotIndex > f.begin
           THEN Effect(CallFrom([f EXCEPT !.pc = "right"],
                                QuickSortFrame(f.begin, f.pivotIndex)),
                       bids, {})
           ELSE Effect(Goto([f EXCEPT !.pc = "right"]), bids, {})
      [] f.pc = "right" ->
           IF f.pivotIndex < f.end
           THEN Effect(CallFrom([f EXCEPT !.pc = "return"],
                                QuickSortFrame(Wrap(f.pivotIndex + 1), f.end)),
                       bids, {})
           ELSE Effect(Below, bids, {})
      [] f.pc = "return" -> Effect(Below, bids, {})

\* BidSorter::merge (lines 113-146).
MergeStep(f) ==
    CASE f.pc = "entry" ->
           Effect(Goto([f EXCEPT !.pc = "both",
                                 !.leftArray = Copied(f.left, Wrap(f.mid + 1)),
                                 !.rightArray = Copied(Wrap(f.mid + 1),
                                                       Wrap(f.right + 1)),
                                 !.k = f.left]),
                  bids, f.left..f.right)
      [] f.pc = "both" ->
           IF f.i < Len(f.leftArray) /\ f.j < Len(f.rightArray)
           THEN IF At(f.leftArray, f.i).title <= At(f.rightArray, f.j).title
                THEN Effect(Goto([f EXCEPT !.i = @ + 1, !.k = Wrap(@ + 1)]),
                            Assigned(f.k, At(f.leftArray, f.i)), {f.k})
                ELSE Effect(Goto([f EXCEPT !.j = @ + 1, !.k = Wrap(@ + 1)]),
                            Assigned(f.k, At(f.rightArray, f.j)), {f.k})
           ELSE Effect(Goto([f EXCEPT !.pc = "restLeft"]), bids, {})
      [] f.pc = "restLeft" ->
           IF f.i < Len(f.leftArray)
           THEN Effect(Goto([f EXCEPT !.i = @ + 1, !.k = Wrap(@ + 1)]),
                       Assigned(f.k, At(f.leftArray, f.i)), {f.k})
           ELSE Effect(Goto([f EXCEPT !.pc = "restRight"]), bids, {})
      [] f.pc = "restRight" ->
           IF f.j < Len(f.rightArray)
           THEN Effect(Goto([f EXCEPT !.j = @ + 1, !.k = Wrap(@ + 1)]),
                       Assigned(f.k, At(f.rightArray, f.j)), {f.k})
           ELSE Effect(Below, bids, {})

\* BidSorter::mergeSort (lines 211-223).
MergeSortStep(f) ==
    CASE f.pc = "entry" ->
           IF bids = << >> \/ f.left >= f.right
           THEN Effect(Below, bids, {})
           ELSE Effect(CallFrom([f EXCEPT !.pc = "second",
                                          !.mid = MidPoint(f.left, f.right)],
                                MergeSortFrame(f.left,
                                               MidPoint(f.left, f.right))),
                       bids, {})
      [] f.pc = "second" ->
           Effect(CallFrom([f EXCEPT !.pc = "merge"],
                           MergeSortFrame(Wrap(f.mid + 1), f.right)), bids, {})
      [] f.pc = "merge" ->
           Effect(CallFrom([f EXCEPT !.pc = "return"],
                           MergeFrame(f.left, f.mid, f.right)), bids, {})
      [] f.pc = "return" -> Effect(Below, bids, {})

\* BidSorter::selectionSort (lines 156-176).
SelectionSortStep(f) ==
    CASE f.pc = "entry" ->
           IF bids = << >>
           THEN Effect(Below, bids, {})
           ELSE Effect(Goto([f EXCEPT !.pc = "outer", !.size = Len(bids),
                                      !.i = 0]), bids, {})
      [] f.pc = "outer" ->
           IF f.i < Wrap(f.size - 1)
           THEN Effect(Goto([f EXCEPT !.pc = "inner", !.minIndex = f.i,
                                      !.j = Wrap(f.i + 1)]), bids, {})
           ELSE Effect(Below, bids, {})
      [] f.pc = "inner" ->
           IF f.j < f.size
           THEN Effect(Goto(IF TitleAt(f.j) < TitleAt(f.minIndex)
                            THEN [f EXCEPT !.minIndex = f.j, !.j = Wrap(@ + 1)]
                            ELSE [f EXCEPT !.j = Wrap(@ + 1)]),
                       bids, {f.j, f.minIndex})
           ELSE Effect(Goto([f EXCEPT !.pc = "swap"]), bids, {})
      [] f.pc = "swap" ->
           IF f.minIndex # f.i
           THEN Effect(Goto([f EXCEPT !.pc = "outer", !.i = Wrap(@ + 1)]),
                       Swapped(f.i, f.minIndex), {f.i, f.minIndex})
           ELSE Effect(Goto([f EXCEPT !.pc = "outer", !.i = Wrap(@ + 1)]),
                       bids, {})

\* BidSorter::heapSort, the heapify lambda (lines 236-260): largest after
\* the comparison with the left child, and after the one with the right.
LargestLeft(n, i) ==
    IF Wrap(2 * i + 1) < n /\ TitleAt(Wrap(2 * i + 1)) > TitleAt(i)
    THEN Wrap(2 * i + 1) ELSE i

\* Largest without the comparison with the right child.
LargestNoRight(n, i) == LargestLeft(n, i)

Largest(n, i) ==
    IF Wrap(2 * i + 2) < n
       /\ TitleAt(Wrap(2 * i + 2)) > TitleAt(LargestLeft(n, i))
    THEN Wrap(2 * i + 2) ELSE LargestLeft(n, i)

HeapifyReads(n, i) ==
    (IF Wrap(2 * i + 1) < n THEN {Wrap(2 * i + 1), i} ELSE {})
    \cup (IF Wrap(2 * i + 2) < n
          THEN {Wrap(2 * i + 2), LargestLeft(n, i)} ELSE {})

HeapifyStep(f) ==
    CASE f.pc = "entry" ->
           IF Largest(f.n, f.i) # f.i
           THEN Effect(CallFrom([f EXCEPT !.pc = "return"],
                                HeapifyFrame(f.n, Largest(f.n, f.i))),
                       Swapped(f.i, Largest(f.n, f.i)),
                       HeapifyReads(f.n, f.i) \cup {f.i, Largest(f.n, f.i)})
           ELSE Effect(Below, bids, HeapifyReads(f.n, f.i))
      [] f.pc = "return" -> Effect(Below, bids, {})

\* BidSorter::heapSort (lines 232-277); i is the int of the build loop,
\* then the size_t of the extraction loop.
HeapSortStep(f) ==
    CASE f.pc = "entry" ->
           IF bids = << >>
           THEN Effect(Below, bids, {})
           ELSE Effect(Goto([f EXCEPT !.pc = "build", !.n = Len(bids),
                                      !.i = ToInt(Wrap(Len(bids) \div 2 - 1))]),
                       bids, {})
      [] f.pc = "build" ->
           IF f.i >= 0
           THEN Effect(CallFrom([f EXCEPT !.pc = "buildNext"],
                                HeapifyFrame(f.n, Wrap(f.i))), bids, {})
           ELSE Effect(Goto([f EXCEPT !.pc = "extract",
                                      !.i = Wrap(f.n - 1)]), bids, {})
      [] f.pc = "buildNext" ->
           Effect(Goto([f EXCEPT !.pc = "build", !.i = @ - 1]), bids, {})
      [] f.pc = "extract" ->
           IF f.i > 0
           THEN Effect(CallFrom([f EXCEPT !.pc = "extractNext"],
                                HeapifyFrame(f.i, 0)),
                       Swapped(0, f.i), {0, f.i})
           ELSE Effect(Below, bids, {})
      [] f.pc = "extractNext" ->
           Effect(Goto([f EXCEPT !.pc = "extract", !.i = Wrap(@ - 1)]),
                  bids, {})

RunInit ==
    /\ bids \in Datasets(MaxLen)
    /\ orig = bids
    /\ pre = bids
    /\ call = NoCall
    /\ acc = {}
    /\ fault = FALSE
    /\ ret = 0
    /\ results = << >>
    /\ ranOn = << >>
    /\ calls = 0
    /\ csvFile = << >>
    /\ stack = << >>

\* The frame of the call sortFunction(bids) or sortFunction(bids, 0,
\* bids.size() - 1).
FirstFrame(sortFunction) ==
    CASE sortFunction = "quickSort" -> QuickSortFrame(0, Wrap(Len(bids) - 1))
      [] sortFunction = "mergeSort" -> MergeSortFrame(0, Wrap(Len(bids) - 1))
      [] sortFunction = "selectionSort" -> SelectionSortFrame
      [] sortFunction = "heapSort" -> HeapSortFrame

\* The client calls one of the four sorts on the whole vector.
BeginSort ==
    /\ call = NoCall
    /\ \E sortFunction \in SortFunctions :
         /\ call' = Call(sortFunction, "none", 0, 0)
         /\ stack' = <<FirstFrame(sortFunction)>>
    /\ calls' = calls + 1
    /\ UNCHANGED <<bids, orig, pre, acc, fault, ret, results, ranOn, csvFile>>

\* A step with the effect e: an access outside the vector is a fault, and
\* the run is followed no further.
Step(e) ==
    /\ acc' = acc \cup e.idx
    /\ IF \A i \in e.idx : InVec(bids, i)
       THEN bids' = e.bids /\ stack' = e.stack /\ UNCHANGED fault
       ELSE fault' = TRUE /\ UNCHANGED <<bids, stack>>
    /\ UNCHANGED <<orig, pre, call, ret, results, ranOn, calls, csvFile>>

InFunction(fn) == ~fault /\ stack # << >> /\ Top.fn = fn

RunSelectionSort ==
    /\ InFunction("selectionSort")
    /\ \E e \in {SelectionSortStep(Top)} : Step(e)

RunQuickSort ==
    /\ InFunction("quickSort")
    /\ \E e \in {QuickSortStep(Top)} : Step(e)

RunPartition ==
    /\ InFunction("partition")
    /\ \E e \in {PartitionStep(Top)} : Step(e)

RunMergeSort ==
    /\ InFunction("mergeSort")
    /\ \E e \in {MergeSortStep(Top)} : Step(e)

RunMerge ==
    /\ InFunction("merge")
    /\ \E e \in {MergeStep(Top)} : Step(e)

RunHeapSort ==
    /\ InFunction("heapSort")
    /\ \E e \in {HeapSortStep(Top)} : Step(e)

RunHeapify ==
    /\ InFunction("heapify")
    /\ \E e \in {HeapifyStep(Top)} : Step(e)

RunNext ==
    \/ BeginSort
    \/ RunSelectionSort
    \/ RunQuickSort
    \/ RunPartition
    \/ RunMergeSort
    \/ RunMerge
    \/ RunHeapSort
    \/ RunHeapify

\* The program is single-threaded and nothing suspends it: a step that can
\* be taken is taken.
RunSpec == RunInit /\ [][RunNext]_vars /\ WF_vars(RunNext)

(***************************************************************************)
(* OriginalSpec: the menu loop of main in VectorSorting.cpp (lines         *)
(* 234-317).  After an access outside the vector the dataset may hold      *)
(* anything.                                                               *)
(***************************************************************************)
OriginalInit ==
    /\ bids = << >>
    /\ orig = << >>
    /\ pre = << >>
    /\ call = NoCall
    /\ acc = {}
    /\ fault = FALSE
    /\ ret = 0
    /\ results = << >>
    /\ ranOn = << >>
    /\ calls = 0
    /\ csvFile \in CsvFiles
    /\ stack = << >>

\* The loop runs until choice is 9 (line 253).
OriginalRunning == call.fn # "originalCase9"

\* case 1 (lines 265-277)
OriginalCase1 ==
    /\ OriginalRunning
    /\ Break("originalCase1", loadBidsOriginal(csvFile), Run(bids),
             << >>, << >>)

\* case 2 (lines 279-286)
OriginalCase2 ==
    /\ OriginalRunning
    /\ Break("originalCase2", bids, Run(bids), << >>, << >>)

\* case 3 (lines 289-297)
OriginalCase3 ==
    /\ OriginalRunning
    /\ \E st \in {selectionSortOriginal(Run(bids))} :
         \E b \in Outcomes(st) :
           Break("originalCase3", b, st, << >>, << >>)

\* case 4 (lines 300-310)
OriginalCase4 ==
    /\ OriginalRunning
    /\ \E size \in {Len(bids)} :
         \E st \in {quickSortOriginal(Run(bids), 0, Wrap(size - 1))} :
           \E b \in Outcomes(st) :
             Break("originalCase4", b, st, << >>, << >>)

\* choice 9 (line 253)
OriginalCase9 ==
    /\ OriginalRunning
    /\ Break("originalCase9", bids, Run(bids), << >>, << >>)

OriginalNext ==
    \/ OriginalCase1
    \/ OriginalCase2
    \/ OriginalCase3
    \/ OriginalCase4
    \/ OriginalCase9

OriginalSpec == OriginalInit /\ [][OriginalNext]_vars

----------------------------------------------------------------------------
(***************************************************************************)
(* Properties of the sort functions, checked under Spec.                   *)
(***************************************************************************)
TitlesOf(v) == [i \in 1..Len(v) |-> v[i].title]
IsSorted(v) == \A i, j \in 1..Len(v) : i < j => v[i].title <= v[j].title
Count(v, r) == Cardinality({i \in 1..Len(v) : v[i] = r})
Range(v) == {v[i] : i \in 1..Len(v)}
SameBag(v, w) ==
    /\ Len(v) = Len(w)
    /\ \A r \in Range(v) \cup Range(w) : Count(v, r) = Count(w, r)
WithTitle(v, t) == LET Has(r) == r.title = t IN SelectSeq(v, Has)

\* The last call was selectionSort(seq), heapSort(seq), quickSort(seq, 0,
\* n-1) or mergeSort(seq, 0, n-1), n - 1 computed in size_t.
FullSort ==
    \/ call.fn \in {"selectionSort", "heapSort"}
    \/ /\ call.fn \in {"quickSort", "mergeSort"}
       /\ call.begin = 0
       /\ call.end = Wrap(Len(pre) - 1)

\* C1: when any of the four algorithms returns from a call on the whole
\* sequence, the sequence is in ascending title order.
C1_Ordering == FullSort => IsSorted(bids)

\* The titles Zebra, Apple, Mango (ranks 3, 1, 2) have become Apple, Mango,
\* Zebra under quickSort.
C1_Witness ==
    /\ FullSort
    /\ call.fn = "quickSort"
    /\ TitlesOf(pre) = <<3, 1, 2>>
    /\ TitlesOf(bids) = <<1, 2, 3>>

\* C2: after a call of any of the four algorithms the sequence holds the
\* records it held before the call, each as often as before.
C2_Permutation == call.fn \in SortFunctions => SameBag(bids, pre)

C2_Witness ==
    /\ call.fn = "mergeSort"
    /\ call.begin = 0
    /\ call.end = Len(pre) - 1
    /\ Len(pre) = MaxLen
    /\ bids # pre
    /\ \E i, j \in 1..Len(pre) : i # j /\ pre[i].title = pre[j].title

\* C3: mergeSort on the whole sequence keeps the records of each title in
\* the order they had in the input.
C3_MergeStable ==
    (FullSort /\ call.fn = "mergeSort")
        => \A t \in Titles : WithTitle(bids, t) = WithTitle(pre, t)

\* Two records of one title stood before a record of a smaller title, and
\* mergeSort has moved them.
C3_Witness ==
    /\ FullSort
    /\ call.fn = "mergeSort"
    /\ Len(pre) >= 3
    /\ pre[1].title = pre[2].title
    /\ pre[3].title < pre[1].title
    /\ bids # pre

\* The input of the last call was in ascending title order, or was what
\* the call before it, of the same function, returned.
SortedInput == FullSort /\ (IsSorted(pre) \/ calls >= 2)

\* C4 as claimed: each of the four algorithms leaves a sequence in
\* ascending title order, and the output of its own first application, as
\* it is, every position holding the same record.
C4_IdempotentRecords == SortedInput => bids = pre

\* C4 as amended: selectionSort and mergeSort do so; quickSort and heapSort
\* leave every position holding a record of the same title.
C4_Idempotent ==
    SortedInput =>
        /\ TitlesOf(bids) = TitlesOf(pre)
        /\ call.fn \in {"selectionSort", "mergeSort"} => bids = pre

\* A second application in succession, to a sequence with a repeated
\* title that the first application had to reorder.
C4_Witness ==
    /\ FullSort
    /\ calls = 2
    /\ call.fn = "selectionSort"
    /\ ~IsSorted(orig)
    /\ \E i, j \in 1..Len(pre) : i # j /\ pre[i].title = pre[j].title

\* The last call was one with nothing to sort: selectionSort or heapSort
\* of at most one record, quickSort or mergeSort of an empty sequence or of
\* a range with begin >= end.
Degenerate ==
    \/ call.fn \in {"selectionSort", "heapSort"} /\ Len(pre) <= 1
    \/ /\ call.fn \in {"quickSort", "mergeSort"}
       /\ pre = << >> \/ call.begin >= call.end

\* C7: a degenerate call returns with the sequence unchanged and has
\* accessed no element outside the sequence.
C7_DegenerateNoOp ==
    Degenerate =>
        /\ bids = pre
        /\ ~fault
        /\ \A i \in acc : InVec(pre, i)

\* quickSort(seq, 0, size() - 1) of an empty sequence, end wrapped to the
\* largest size_t.
C7_Witness ==
    /\ Degenerate
    /\ call.fn = "quickSort"
    /\ pre = << >>
    /\ call.begin = 0
    /\ call.end = SizeMax

\* C8: partition(seq, begin, end) with 0 <= begin < end <= n-1, of the
\* enhanced and of the original engine, reads and swaps only elements at
\* indices inside [begin, end].
C8_CursorsInRange ==
    call.fn \in {"partition", "partitionOriginal"} =>
        /\ ~fault
        /\ \A i \in acc : call.begin <= i /\ i <= call.end

\* The original partition from index 0 with the pivot the smallest title
\* of the range, the high cursor having come down to index 0.
C8_Witness ==
    /\ call.fn = "partitionOriginal"
    /\ call.begin = 0
    /\ call.end = MaxLen - 1
    /\ \A i \in 1..Len(pre) :
         pre[((call.end - call.begin) \div 2) + 1].title <= pre[i].title
    /\ ret = 0
    /\ 0 \in acc

----------------------------------------------------------------------------
(***************************************************************************)
(* Properties of the benchmark functions, checked under BenchSpec.         *)
(***************************************************************************)
Benchmarked == call.fn \in {"benchmarkSort", "runBenchmarkComparison"}

\* C5: after any number of benchmarkSort and runBenchmarkComparison calls,
\* with any of the four algorithms, the caller's sequence holds the records
\* it held before the first call, in the same order.
C5_NonInterference == Benchmarked => bids = orig

\* A second benchmark call on the same sequence: a quick sort has been
\* timed on a copy of the caller's sequence, which is not in order.
C5_Witness ==
    /\ call = Call("benchmarkSort", "quickSort", 0, 0)
    /\ calls >= 2
    /\ acc # {}
    /\ ~IsSorted(bids)
    /\ Len(ranOn) = 1

\* C6 as claimed: benchmarkSort on a sequence of length 0 or 1 returns a
\* result of dataset size 0 and elapsed time 0.
C6_ZeroResultUpToOne ==
    (call.fn = "benchmarkSort" /\ Len(pre) <= 1) =>
        /\ results[1].dataSize = 0
        /\ results[1].executionTimeMs = 0

\* C6 as amended: on an empty sequence benchmarkSort returns a result of
\* size 0 and time 0 and runs no algorithm; on a sequence of one record the
\* size is 1 and the algorithm has run.
C6_ZeroResultWhenEmpty ==
    call.fn = "benchmarkSort" =>
        /\ Len(results) = 1
        /\ results[1].algorithmName = AlgorithmName(call.algo)
        /\ Len(pre) = 0 =>
             /\ results[1].dataSize = 0
             /\ results[1].executionTimeMs = 0
             /\ ranOn = << >>
        /\ Len(pre) = 1 =>
             /\ results[1].dataSize = 1
             /\ ranOn = <<pre>>

\* benchmarkSort of one record returned size 1 and a time that is not 0.
C6_Witness ==
    /\ call.fn = "benchmarkSort"
    /\ Len(pre) = 1
    /\ results[1].dataSize = 1
    /\ results[1].executionTimeMs > 0

SweepNames == <<"Selection Sort", "Quick Sort", "Merge Sort", "Heap Sort">>

\* C9 as claimed: runBenchmarkComparison on a dataset of any length
\* produces four results, named Selection Sort, Quick Sort, Merge Sort and
\* Heap Sort in this order, each algorithm having run on the dataset in its
\* original order.
C9_SweepAnyLength ==
    call.fn = "runBenchmarkComparison" =>
        /\ Len(results) = 4
        /\ \A i \in 1..4 : results[i].algorithmName = SweepNames[i]
        /\ ranOn = <<pre, pre, pre, pre>>

\* C9 as amended: so it does on a dataset that is not empty, each result
\* carrying the dataset's size; on an empty dataset it produces no result
\* and runs no algorithm.
C9_SweepNonEmpty ==
    call.fn = "runBenchmarkComparison" =>
        /\ pre # << >> =>
             /\ Len(results) = 4
             /\ \A i \in 1..4 :
                  /\ results[i].algorithmName = SweepNames[i]
                  /\ results[i].dataSize = Len(pre)
             /\ ranOn = <<pre, pre, pre, pre>>
        /\ pre = << >> => results = << >> /\ ranOn = << >>

\* A sweep of a dataset that was not in order, the results not in the
\* order of their times.
C9_Witness ==
    /\ call.fn = "runBenchmarkComparison"
    /\ ~IsSorted(pre)
    /\ Len(results) = 4
    /\ results[1].executionTimeMs > results[2].executionTimeMs

----------------------------------------------------------------------------
(***************************************************************************)
(* Properties of the menu loop, checked under MainSpec.                    *)
(***************************************************************************)
\* C10: after a sort command (4 Selection, 5 Quick, 6 Merge, 7 Heap) given
\* with a live dataset that is not empty, the live dataset is the dataset
\* as it was just before the command, in ascending title order.
C10_BenchmarkThenResort ==
    (call.fn \in {"case4", "case5", "case6", "case7"} /\ pre # << >>) =>
        /\ IsSorted(bids)
        /\ SameBag(bids, pre)

----------------------------------------------------------------------------
(***************************************************************************)
(* Properties of a sort followed step by step, checked under RunSpec.      *)
(***************************************************************************)
\* The call has returned.
Finished == call # NoCall /\ stack = << >> /\ ~fault

\* Every quickSort called by quickSort, and every mergeSort called by
\* mergeSort, has a range inside its caller's and strictly shorter.
RecursionShrinks ==
    \A k \in 1..(Len(stack) - 1) :
        /\ (stack[k].fn = "quickSort" /\ stack[k + 1].fn = "quickSort") =>
             /\ stack[k].begin <= stack[k + 1].begin
             /\ stack[k + 1].begin <= stack[k + 1].end
             /\ stack[k + 1].end <= stack[k].end
             /\ stack[k + 1].end - stack[k + 1].begin
                  < stack[k].end - stack[k].begin
        /\ (stack[k].fn = "mergeSort" /\ stack[k + 1].fn = "mergeSort") =>
             /\ stack[k].left <= stack[k + 1].left
             /\ stack[k + 1].left <= stack[k + 1].right
             /\ stack[k + 1].right <= stack[k].right
             /\ stack[k + 1].right - stack[k + 1].left
                  < stack[k].right - stack[k].left

\* C11: every call of selectionSort, quickSort, mergeSort and heapSort on
\* the whole of a vector returns, whatever the order of the titles and
\* whether or not they repeat, and every recursive call of quickSort and
\* mergeSort is on a range strictly shorter than its caller's.
C11_Terminates == []RecursionShrinks /\ <>Finished

\* quickSort has returned from a vector of strictly descending titles.
C11_Witness ==
    /\ Finished
    /\ call.fn = "quickSort"
    /\ TitlesOf(pre) = <<3, 2, 1>>
    /\ TitlesOf(bids) = <<1, 2, 3>>

\* Positions [0, size) are a max-heap by title: no child has a greater
\* title than its parent.
IsMaxHeap(b, size) ==
    \A child \in 1..(size - 1) :
        At(b, (child - 1) \div 2).title >= At(b, child).title

\* Positions [size, n) are in ascending title order and hold no title
\* smaller than one of [0, size).
SortedAbove(b, size, n) ==
    /\ \A x \in size..(n - 1), y \in size..(n - 1) :
         x < y => At(b, x).title <= At(b, y).title
    /\ \A x \in size..(n - 1), y \in 0..(size - 1) :
         At(b, x).title >= At(b, y).title

\* C14: when the build loop of heapSort exits, the whole sequence is a
\* max-heap by title; at the start of each extraction step, the heap
\* having size i + 1 for the loop variable i, positions [0, i + 1) are a
\* max-heap, positions [i + 1, n) are in ascending title order and every
\* title in [i + 1, n) is at least every title in [0, i + 1).
C14_HeapInvariants ==
    InFunction("heapSort") =>
        /\ (Top.pc = "build" /\ Top.i < 0) => IsMaxHeap(bids, Top.n)
        /\ Top.pc = "extract" =>
             /\ IsMaxHeap(bids, Top.i + 1)
             /\ SortedAbove(bids, Top.i + 1, Top.n)

\* The start of the extraction step with a heap of two of the MaxLen
\* records of a vector that was not a heap at the call.
C14_Witness ==
    /\ InFunction("heapSort")
    /\ Top.pc = "extract"
    /\ Top.n = MaxLen
    /\ Top.i = 1
    /\ ~IsMaxHeap(pre, MaxLen)
    /\ At(bids, 0).title > At(bids, 1).title

----------------------------------------------------------------------------
(***************************************************************************)
(* Properties of partition and of the sorts of a range, checked under      *)
(* Spec.                                                                   *)
(***************************************************************************)
\* The pivot of the call: the title at the midpoint of the range before
\* any swap.
PivotOf(c) == At(pre, c.begin + (c.end - c.begin) \div 2).title

\* C12: partition(seq, begin, end) with 0 <= begin < end <= n-1 returns a
\* split s with begin <= s <= end-1, every title in [begin, s] at most the
\* pivot and every title in [s+1, end] at least the pivot, so [begin, s]
\* and [s+1, end] are not empty and are strictly shorter than [begin, end].
C12_PartitionPost ==
    call.fn = "partition" =>
        /\ ~fault
        /\ call.begin <= ret
        /\ ret <= call.end - 1
        /\ \A i \in call.begin..ret : At(bids, i).title <= PivotOf(call)
        /\ \A i \in (ret + 1)..call.end : At(bids, i).title >= PivotOf(call)

\* partition of a whole vector of MaxLen records that exchanged elements
\* and split it after its second element.
C12_Witness ==
    /\ call = Call("partition", "none", 0, MaxLen - 1)
    /\ bids # pre
    /\ ret = 1
    /\ \E i \in 0..(MaxLen - 1) : At(bids, i).title # PivotOf(call)

----------------------------------------------------------------------------
(***************************************************************************)
(* Properties of the original menu loop, checked under OriginalSpec.       *)
(***************************************************************************)
\* C13: menu options 3 (selectionSort(bids)) and 4 (quickSort(bids, 0,
\* bids.size() - 1)) of VectorSorting.cpp, on a dataset of length 0 or 1,
\* leave the dataset unchanged and access no element outside it.
C13_OriginalNoOp ==
    (call.fn \in {"originalCase3", "originalCase4"} /\ Len(pre) <= 1) =>
        /\ ~fault
        /\ bids = pre
        /\ \A i \in acc : InVec(pre, i)

\* The records of b at the indices begin..end.
Inside(b, begin, end) == SubSeq(b, begin + 1, end + 1)

\* C15: after quickSort(seq, begin, end) or mergeSort(seq, begin, end)
\* with 0 <= begin <= end <= n-1, every index outside [begin, end] holds
\* the record it held before the call, and the records inside [begin, end]
\* are those that were inside it before the call, in ascending title order.
C15_SubRangeFrame ==
    (/\ call.fn \in {"quickSort", "mergeSort"}
     /\ call.begin <= call.end
     /\ call.end < Len(pre)) =>
        /\ ~fault
        /\ Len(bids) = Len(pre)
        /\ \A i \in 0..(Len(pre) - 1) :
             (i < call.begin \/ i > call.end) => At(bids, i) = At(pre, i)
        /\ IsSorted(Inside(bids, call.begin, call.end))
        /\ SameBag(Inside(bids, call.begin, call.end),
                   Inside(pre, call.begin, call.end))

\* mergeSort of the two middle records of a vector of MaxLen records has
\* exchanged them, and the vector as a whole is not in order.
C15_Witness ==
    /\ call = Call("mergeSort", "none", 1, 2)
    /\ Len(pre) = MaxLen
    /\ bids # pre
    /\ ~IsSorted(bids)

=============================================================================
